---- MODULE Spec2Model ----
(***************************************************************************)
(* Inventory ledger of aliyusifov99/inventory-management.                  *)
(*                                                                         *)
(* The store (database/operations.py) holds two tables, products and       *)
(* transactions, in one of two variants selected by DB_TYPE: the sqlite    *)
(* branch and the sheets branch.  The pages (pages/add_product.py,         *)
(* pages/view_products.py, pages/update_stock.py) are the only callers.    *)
(* A Streamlit script run of the stock page reads the products at its top  *)
(* (update_stock.py:18) and writes at its end (update_stock.py:120-121);   *)
(* runs of different browser sessions interleave between store calls.      *)
(*                                                                         *)
(* Conventions: a name is a sequence of one-character strings; a price or  *)
(* cost is a whole number of qepik (1/100 manat); a timestamp is the value *)
(* of the wall clock, whose resolution is one second.                      *)
(***************************************************************************)
EXTENDS Integers, Sequences, FiniteSets, TLC

(* ------------------------------ bounds -------------------------------- *)

\* most product rows held by the store at one time
MaxProducts == 2

\* most transaction rows held by the store at one time
MaxTransactions == 2

\* largest quantity a restock is allowed to reach
MaxQuantity == 2

\* largest number of units typed into the stock form
MaxUnits == 1

\* last second of the wall clock
MaxClock == 1

\* rows ever inserted into a sqlite table (its AUTOINCREMENT sequence)
MaxProductSeq == MaxProducts
MaxTransactionSeq == MaxTransactions

(* ------------------------------ inputs -------------------------------- *)

\* browser sessions running the stock page
Sessions == {1, 2}

\* values typed into the add-product form (add_product.py:21-57)
NameInputs == { <<>>, <<"a">>, <<" ", "a", "b">> }
QuantityInputs == 0 .. MaxUnits
MinQuantityInputs == {1}
PriceInputs == {0, 250}
CostInputs == {0}

(* --------------------------- utils/validation ------------------------- *)

\* code point order of the characters used in names
CharCode(c) == CASE c = " " -> 32 [] c = "a" -> 97 [] c = "b" -> 98 [] OTHER -> 122

RECURSIVE lstrip(_)
lstrip(s) == IF s # <<>> /\ Head(s) = " " THEN lstrip(Tail(s)) ELSE s

RECURSIVE rstrip(_)
rstrip(s) ==
    IF s # <<>> /\ s[Len(s)] = " " THEN rstrip(SubSeq(s, 1, Len(s) - 1)) ELSE s

\* str.strip()
strip(s) == rstrip(lstrip(s))

\* an optional argument: {} is None, {v} is the value v
None == {}
Some(v) == {v}

\* "x is not None and x < 0"
IsNegative(opt) == \E v \in opt : v < 0

\* validation.py:3-29 with every test after the first chained by elif, so
\* that only the first violated constraint is reported
validate_product_data_first_error(name, price, quantity, min_quantity, cost) ==
    IF name = <<>> \/ strip(name) = <<>> THEN <<"name required">>
    ELSE IF Len(strip(name)) < 2 THEN <<"name needs 2 characters">>
    ELSE IF price = None \/ (\E v \in price : v <= 0)
         THEN <<"price must be above 0">>
    ELSE IF IsNegative(quantity) THEN <<"quantity is negative">>
    ELSE IF IsNegative(min_quantity) THEN <<"min_quantity is negative">>
    ELSE IF IsNegative(cost) THEN <<"cost is negative">>
    ELSE <<>>

\* validation.py:3-29 with len(name) in place of len(name.strip())
validate_product_data_untrimmed(name, price, quantity, min_quantity, cost) ==
    (IF name = <<>> \/ strip(name) = <<>> THEN <<"name required">>
     ELSE IF Len(name) < 2 THEN <<"name needs 2 characters">>
     ELSE <<>>)
    \o (IF price = None \/ (\E v \in price : v <= 0)
        THEN <<"price must be above 0">> ELSE <<>>)
    \o (IF IsNegative(quantity) THEN <<"quantity is negative">> ELSE <<>>)
    \o (IF IsNegative(min_quantity) THEN <<"min_quantity is negative">> ELSE <<>>)
    \o (IF IsNegative(cost) THEN <<"cost is negative">> ELSE <<>>)

\* validation.py:3-29
validate_product_data(name, price, quantity, min_quantity, cost) ==
    (IF name = <<>> \/ strip(name) = <<>> THEN <<"name required">>
     ELSE IF Len(strip(name)) < 2 THEN <<"name needs 2 characters">>
     ELSE <<>>)
    \o (IF price = None \/ (\E v \in price : v <= 0)
        THEN <<"price must be above 0">> ELSE <<>>)
    \o (IF IsNegative(quantity) THEN <<"quantity is negative">> ELSE <<>>)
    \o (IF IsNegative(min_quantity) THEN <<"min_quantity is negative">> ELSE <<>>)
    \o (IF IsNegative(cost) THEN <<"cost is negative">> ELSE <<>>)

(* ------------------------------- state -------------------------------- *)

VARIABLES
    DB_TYPE,          \* "sqlite" or "sheets" (config/settings.py:18)
    products,         \* rows of the products table, in insertion order
    transactions,     \* rows of the transactions table, in insertion order
    product_seq,      \* sqlite_sequence of products (AUTOINCREMENT)
    transaction_seq,  \* sqlite_sequence of transactions (AUTOINCREMENT)
    clock,            \* datetime.now(), in seconds
    run,              \* per session: the locals of its stock-page script run
    issued,           \* history: the product ids add_product has returned
    last_op,          \* the last completed call and what it returned
    twin              \* a store of each variant, given the same calls

vars == <<DB_TYPE, products, transactions, product_seq, transaction_seq,
          clock, run, issued, last_op, twin>>

(* ------------------------- database/operations ------------------------ *)

sqlite == "sqlite"
sheets == "sheets"

\* indices of the rows of a table that carry product_id
RowsOf(rows, product_id) ==
    { i \in 1 .. Len(rows) : rows[i].product_id = product_id }

\* index of the first such row, 0 when there is none
FirstRowOf(rows, product_id) ==
    IF RowsOf(rows, product_id) = {} THEN 0
    ELSE CHOOSE i \in RowsOf(rows, product_id) :
             \A j \in RowsOf(rows, product_id) : i <= j

\* a table without the rows whose index is in gone
RECURSIVE DeleteRows(_, _)
DeleteRows(rows, gone) ==
    IF rows = <<>> THEN <<>>
    ELSE LET rest == DeleteRows(SubSeq(rows, 1, Len(rows) - 1), gone)
         IN  IF Len(rows) \in gone THEN rest ELSE Append(rest, rows[Len(rows)])

\* add_product: the identifier the new row gets
\* (sqlite: cursor.lastrowid of an AUTOINCREMENT key; sheets: the number of
\*  rows of the sheet, header included)
add_product_id ==
    IF DB_TYPE = sqlite THEN product_seq + 1 ELSE Len(products) + 1

\* add_product: the row it inserts; initial_quantity is a history field the
\* store does not hold, the quantity the row was created with
add_product_row(name, quantity, min_quantity, price, cost) ==
    [ product_id       |-> add_product_id,
      name             |-> name,
      quantity         |-> quantity,
      min_quantity     |-> min_quantity,
      price            |-> price,
      cost             |-> cost,
      created_date     |-> clock,
      last_updated     |-> clock,
      initial_quantity |-> quantity ]

\* update_product_stock: the products table after the call.  sqlite updates
\* every row with the key in one commit; sheets updates the first matching
\* row, one cell at a time ("partial": the call failed between the cells).
update_product_stock(product_id, new_quantity, outcome) ==
    LET hit == IF DB_TYPE = sqlite THEN RowsOf(products, product_id)
               ELSE { FirstRowOf(products, product_id) } \ {0}
    IN  IF outcome = "unavailable" THEN products
        ELSE [ i \in 1 .. Len(products) |->
                 IF i \notin hit THEN products[i]
                 ELSE IF outcome = "partial"
                      THEN [ products[i] EXCEPT !.quantity = new_quantity ]
                      ELSE [ products[i] EXCEPT !.quantity = new_quantity,
                                                !.last_updated = clock ] ]

\* update_product_stock: what the call returns ("raised": an exception)
update_product_stock_ret(product_id, outcome) ==
    IF outcome = "ok"
    THEN IF RowsOf(products, product_id) # {} THEN "True" ELSE "False"
    ELSE IF DB_TYPE = sqlite THEN "raised"
    ELSE "False"

\* add_transaction: the identifier the new row gets
add_transaction_id ==
    IF DB_TYPE = sqlite THEN transaction_seq + 1 ELSE Len(transactions) + 1

\* add_transaction: the transactions table after the call; neither branch
\* looks the product up (sqlite does not enforce the foreign key unless
\* PRAGMA foreign_keys is set, and the code never sets it)
add_transaction(product_id, transaction_type, quantity_change, outcome) ==
    IF outcome # "ok" THEN transactions
    ELSE Append(transactions,
                [ transaction_id   |-> add_transaction_id,
                  product_id       |-> product_id,
                  transaction_type |-> transaction_type,
                  quantity_change  |-> quantity_change,
                  timestamp        |-> clock ])

\* add_transaction: what the call returns
add_transaction_ret(outcome) ==
    IF outcome = "ok" THEN "id"
    ELSE IF DB_TYPE = sqlite THEN "raised"
    ELSE "None"

\* delete_product: the products table after the call
delete_product_products(product_id, outcome) ==
    IF outcome = "unavailable" THEN products
    ELSE IF DB_TYPE = sqlite
         THEN DeleteRows(products, RowsOf(products, product_id))
         ELSE DeleteRows(products, { FirstRowOf(products, product_id) } \ {0})

\* delete_product: the transactions table after the call.  sheets deletes
\* the transactions only after it found and deleted a product row, and
\* swallows a failure of that second part ("partial").
delete_product_transactions(product_id, outcome) ==
    IF outcome # "ok" THEN transactions
    ELSE IF DB_TYPE = sheets /\ RowsOf(products, product_id) = {}
         THEN transactions
         ELSE DeleteRows(transactions, RowsOf(transactions, product_id))

\* delete_product: what the call returns
delete_product_ret(product_id, outcome) ==
    IF outcome = "unavailable"
    THEN IF DB_TYPE = sqlite THEN "raised" ELSE "False"
    ELSE IF RowsOf(products, product_id) # {} THEN "True" ELSE "False"

\* what a store call can do in the variant in use
Outcomes == IF DB_TYPE = sqlite THEN {"ok", "unavailable"}
            ELSE {"ok", "unavailable", "partial"}

(* ------------------------------ pages --------------------------------- *)

\* name order of ORDER BY name / sort_values('name'): code points, shorter first
RECURSIVE NameLess(_, _)
NameLess(a, b) ==
    IF a = <<>> THEN b # <<>>
    ELSE IF b = <<>> THEN FALSE
    ELSE IF Head(a) # Head(b) THEN CharCode(Head(a)) < CharCode(Head(b))
    ELSE NameLess(Tail(a), Tail(b))

\* products_df[products_df['product_id'] == id].iloc[0] over get_all_products():
\* the rows with the id that no other such row precedes in name order
SelectedRows(product_id) ==
    { i \in RowsOf(products, product_id) :
        \A j \in RowsOf(products, product_id) :
            ~ NameLess(products[j].name, products[i].name) }

\* the options of the movement selectbox (update_stock.py:72-76)
TransactionTypeOptions == {"SATIS", "STOKU ARTIR"}

\* update_stock.py:107, the guard of the submit handler
InsufficientStock(transaction_type, quantity_change, current_stock) ==
    transaction_type = "SALE" /\ quantity_change > current_stock

\* new_quantity as it would be if only its comparison, and not the guard of
\* line 107, tested the label the selectbox offers
new_quantity_by_label(transaction_type, current_stock, quantity_change) ==
    IF transaction_type = "SATIS" THEN current_stock - quantity_change
    ELSE current_stock + quantity_change

\* update_stock.py:112-117
new_quantity(transaction_type, current_stock, quantity_change) ==
    IF transaction_type = "SALE" THEN current_stock - quantity_change
    ELSE current_stock + quantity_change

quantity_change_db(transaction_type, quantity_change) ==
    IF transaction_type = "SALE" THEN 0 - quantity_change ELSE quantity_change

\* the locals of a stock-page run that is not between its two store calls
NoRun == [ pc |-> "idle", product_id |-> 0, current_stock |-> 0,
           transaction_type |-> "", quantity_change |-> 0,
           new_quantity |-> 0, quantity_change_db |-> 0 ]

NoOp == [ op |-> "none", product_id |-> 0, ret |-> "none", shown |-> "none" ]

\* a store as init_database leaves it (database.py:44-119)
EmptyStore == [ products |-> <<>>, transactions |-> <<>>,
                product_seq |-> 0, transaction_seq |-> 0 ]

\* what a call returned: a row id (int), True / False (bool), or nothing
\* yet; the kind is kept beside the value, as Python keeps a value's type
ReturnsInt(n) == [ type |-> "int", int |-> n, bool |-> FALSE ]
ReturnsBool(b) == [ type |-> "bool", int |-> 0, bool |-> b ]
NothingReturned == [ type |-> "none", int |-> 0, bool |-> FALSE ]

\* no call has been given to the two variants yet
NoTwin == [ store |-> [ sqlite |-> EmptyStore, sheets |-> EmptyStore ],
            ret |-> [ sqlite |-> NothingReturned, sheets |-> NothingReturned ] ]

\* stock-page runs that still have a transaction to insert
InFlight == { s \in Sessions : run[s].pc # "idle" }

\* the session a new run is given: sessions without a run are alike, so
\* the lowest one stands for all of them
FreeSession == CHOOSE s \in Sessions \ InFlight :
                   \A t \in Sessions \ InFlight : s <= t

Init ==
    /\ DB_TYPE \in {sqlite, sheets}
    /\ products = <<>>
    /\ transactions = <<>>
    /\ product_seq = 0
    /\ transaction_seq = 0
    /\ clock = 0
    /\ run = [ s \in Sessions |-> NoRun ]
    /\ issued = {}
    /\ last_op = NoOp
    /\ twin = NoTwin

\* the wall clock passes a second
Tick ==
    /\ clock < MaxClock
    /\ clock' = clock + 1
    /\ UNCHANGED <<DB_TYPE, twin, products, transactions, product_seq,
                   transaction_seq, run, issued, last_op>>

\* add_product.py:77-109, the submit handler of the add-product form
SubmitAddProduct(name, quantity, min_quantity, price, cost) ==
    LET errors == validate_product_data(name, Some(price), Some(quantity),
                                        Some(min_quantity), Some(cost))
    IN  /\ Len(products) < MaxProducts
        /\ product_seq < MaxProductSeq
        /\ IF errors # <<>>
           THEN /\ last_op' = [ op |-> "add_product", product_id |-> 0,
                                ret |-> "none", shown |-> "errors" ]
                /\ UNCHANGED <<products, product_seq, issued>>
           ELSE /\ products' = Append(products,
                        add_product_row(strip(name), quantity, min_quantity,
                                        price, cost))
                /\ product_seq' = IF DB_TYPE = sqlite THEN product_seq + 1
                                  ELSE product_seq
                /\ issued' = issued \cup {add_product_id}
                /\ last_op' = [ op |-> "add_product",
                                product_id |-> add_product_id,
                                ret |-> "id", shown |-> "success" ]
        /\ UNCHANGED <<DB_TYPE, twin, transactions, transaction_seq, clock, run>>

AddProductPage ==
    \E name \in NameInputs, quantity \in QuantityInputs,
       min_quantity \in MinQuantityInputs, price \in PriceInputs,
       cost \in CostInputs :
        SubmitAddProduct(name, quantity, min_quantity, price, cost)

\* update_stock.py:18-117: a run of the stock page that handles a submitted
\* form, up to its first store write.  The product is one of the rows read
\* at the top of the run; current_stock is that row's quantity.
SubmitStockForm(s, i, transaction_type, quantity_change) ==
    LET current_stock == products[i].quantity
        product_id == products[i].product_id
    IN  /\ s = FreeSession
        /\ i \in SelectedRows(product_id)
        /\ Len(transactions) + Cardinality(InFlight) < MaxTransactions
        /\ transaction_seq + Cardinality(InFlight) < MaxTransactionSeq
        /\ new_quantity(transaction_type, current_stock, quantity_change)
               <= MaxQuantity
        /\ IF InsufficientStock(transaction_type, quantity_change, current_stock)
           THEN /\ last_op' = [ op |-> "stock_form", product_id |-> product_id,
                                ret |-> "none", shown |-> "insufficient" ]
                /\ run' = run
           ELSE /\ run' = [ run EXCEPT ![s] =
                    [ pc |-> "submitted",
                      product_id |-> product_id,
                      current_stock |-> current_stock,
                      transaction_type |-> transaction_type,
                      quantity_change |-> quantity_change,
                      new_quantity |-> new_quantity(transaction_type,
                                          current_stock, quantity_change),
                      quantity_change_db |-> quantity_change_db(
                                          transaction_type, quantity_change) ] ]
                /\ last_op' = [ op |-> "stock_form", product_id |-> product_id,
                                ret |-> "none", shown |-> "none" ]
        /\ UNCHANGED <<DB_TYPE, twin, products, transactions, product_seq,
                       transaction_seq, clock, issued>>

StockPageSubmit ==
    \E s \in Sessions \ InFlight, i \in 1 .. Len(products),
       transaction_type \in TransactionTypeOptions,
       quantity_change \in 1 .. MaxUnits :
        SubmitStockForm(s, i, transaction_type, quantity_change)

\* update_stock.py:120: update_product_stock(selected_product_id, new_quantity);
\* an exception ends the run in the handler of line 129
StockPageUpdate(s, outcome) ==
    LET ret == update_product_stock_ret(run[s].product_id, outcome)
    IN  /\ run[s].pc = "submitted"
        /\ products' = update_product_stock(run[s].product_id,
                                            run[s].new_quantity, outcome)
        /\ run' = [ run EXCEPT ![s] =
                      IF ret = "raised" THEN NoRun
                      ELSE [ run[s] EXCEPT !.pc = "stock_written" ] ]
        /\ last_op' = [ op |-> "update_product_stock",
                        product_id |-> run[s].product_id, ret |-> ret,
                        shown |-> IF ret = "raised" THEN "error" ELSE "none" ]
        /\ UNCHANGED <<DB_TYPE, twin, transactions, product_seq, transaction_seq,
                       clock, issued>>

StockPageUpdateStock ==
    \E s \in Sessions, outcome \in Outcomes : StockPageUpdate(s, outcome)

\* update_stock.py:121-130: add_transaction(selected_product_id,
\* transaction_type, quantity_change_db), then the success message
StockPageTransaction(s, outcome) ==
    LET ret == add_transaction_ret(outcome)
    IN  /\ run[s].pc = "stock_written"
        /\ outcome \in {"ok", "unavailable"}
        /\ transactions' = add_transaction(run[s].product_id,
                               run[s].transaction_type,
                               run[s].quantity_change_db, outcome)
        /\ transaction_seq' = IF DB_TYPE = sqlite /\ outcome = "ok"
                              THEN transaction_seq + 1 ELSE transaction_seq
        /\ run' = [ run EXCEPT ![s] = NoRun ]
        /\ last_op' = [ op |-> "add_transaction",
                        product_id |-> run[s].product_id, ret |-> ret,
                        shown |-> IF ret = "raised" THEN "error" ELSE "success" ]
        /\ UNCHANGED <<DB_TYPE, twin, products, product_seq, clock, issued>>

StockPageAddTransaction ==
    \E s \in Sessions, outcome \in Outcomes : StockPageTransaction(s, outcome)

\* view_products.py:163-175: the delete button.  The id comes from the
\* products the page read when it was drawn, so the product may be gone.
DeleteProduct(product_id, outcome) ==
    LET ret == delete_product_ret(product_id, outcome)
    IN  /\ products' = delete_product_products(product_id, outcome)
        /\ transactions' = delete_product_transactions(product_id, outcome)
        /\ last_op' = [ op |-> "delete_product", product_id |-> product_id,
                        ret |-> ret,
                        shown |-> IF ret = "True" THEN "success" ELSE "error" ]
        /\ UNCHANGED <<DB_TYPE, twin, product_seq, transaction_seq, clock, run,
                       issued>>

DeleteProductPage ==
    \E product_id \in issued, outcome \in Outcomes :
        DeleteProduct(product_id, outcome)

Next ==
    \/ Tick
    \/ AddProductPage
    \/ StockPageSubmit
    \/ StockPageUpdateStock
    \/ StockPageAddTransaction
    \/ DeleteProductPage

Spec == Init /\ [][Next]_vars

\* the same system when no store call fails
StockPageUpdateStockOk == \E s \in Sessions : StockPageUpdate(s, "ok")
StockPageAddTransactionOk == \E s \in Sessions : StockPageTransaction(s, "ok")
DeleteProductPageOk == \E product_id \in issued : DeleteProduct(product_id, "ok")

NextOk ==
    \/ Tick
    \/ AddProductPage
    \/ StockPageSubmit
    \/ StockPageUpdateStockOk
    \/ StockPageAddTransactionOk
    \/ DeleteProductPageOk

SpecOk == Init /\ [][NextOk]_vars

(* --------------------------- product details -------------------------- *)

\* the cells update_product_details writes, in the order of
\* operations.py:276-280
DetailCells == <<"name", "min_quantity", "price", "cost", "last_updated">>

\* how many of the cell writes of one call can have completed: the sqlite
\* UPDATE is one statement, the sheets variant issues one request per cell
CellsDone == IF DB_TYPE = sqlite THEN {0, Len(DetailCells)}
             ELSE 0 .. Len(DetailCells)

Range(cells) == { cells[k] : k \in 1 .. Len(cells) }

\* a product row after the first `cells` of the detail cells were written
WriteDetailCells(row, name, min_quantity, price, cost, cells) ==
    LET given == [ name |-> name, min_quantity |-> min_quantity,
                   price |-> price, cost |-> cost, last_updated |-> clock ]
    IN  [ f \in DOMAIN row |->
            IF \E k \in 1 .. cells : DetailCells[k] = f
            THEN given[f] ELSE row[f] ]

\* operations.py:248-284 with current_time written to column G
\* (created_date) instead of column H
update_product_details_created_column(product_id, name, min_quantity, price, cost, cells) ==
    [ i \in 1 .. Len(products) |->
        IF products[i].product_id = product_id
           /\ (DB_TYPE = sqlite \/ i = FirstRowOf(products, product_id))
        THEN [ WriteDetailCells(products[i], name, min_quantity, price, cost,
                                cells)
                 EXCEPT !.last_updated = products[i].last_updated,
                        !.created_date = IF cells = Len(DetailCells)
                                         THEN clock ELSE @ ]
        ELSE products[i] ]

\* operations.py:248-284 with min_quantity written to column C (quantity)
\* instead of column D
update_product_details_wrong_column(product_id, name, min_quantity, price, cost, cells) ==
    [ i \in 1 .. Len(products) |->
        IF products[i].product_id = product_id
           /\ (DB_TYPE = sqlite \/ i = FirstRowOf(products, product_id))
        THEN [ WriteDetailCells(products[i], name, products[i].min_quantity,
                                price, cost, cells)
                 EXCEPT !.quantity = IF cells >= 2 THEN min_quantity ELSE @ ]
        ELSE products[i] ]

\* operations.py:248-284, the products table after the call: sqlite updates
\* every row WHERE product_id = ?, sheets the first row with the id
update_product_details(product_id, name, min_quantity, price, cost, cells) ==
    [ i \in 1 .. Len(products) |->
        IF products[i].product_id = product_id
           /\ (DB_TYPE = sqlite \/ i = FirstRowOf(products, product_id))
        THEN WriteDetailCells(products[i], name, min_quantity, price, cost,
                              cells)
        ELSE products[i] ]

\* operations.py:262, 281-284: rowcount > 0 in sqlite, where a failed
\* statement raises; True / False in sheets, where failures are swallowed
update_product_details_ret(product_id, cells) ==
    IF DB_TYPE = sqlite
    THEN IF cells < Len(DetailCells) THEN "raised"
         ELSE IF RowsOf(products, product_id) # {} THEN "True" ELSE "False"
    ELSE IF RowsOf(products, product_id) # {} /\ cells = Len(DetailCells)
         THEN "True" ELSE "False"

\* what the edit form can be submitted with; min_value = 0 on the three
\* number inputs (update_stock.py:164-188)
EditNameInputs == { <<" ">>, <<"a", " ">> }
EditMinQuantityInputs == {1}
EditPriceInputs == {0, 100}
EditCostInputs == {0}

\* update_stock.py:194-213, the submit handler of the edit form.  The id
\* comes from the products the page read when it was drawn.
SubmitEditProduct(product_id, new_name, new_min_quantity, new_price, new_cost, cells) ==
    /\ IF new_name = <<>> \/ strip(new_name) = <<>> \/ new_price <= 0
       THEN /\ last_op' = [ op |-> "edit_form", product_id |-> product_id,
                            ret |-> "none", shown |-> "error" ]
            /\ UNCHANGED products
       ELSE LET ret == update_product_details_ret(product_id, cells)
            IN  /\ products' = update_product_details(product_id,
                                   strip(new_name), new_min_quantity,
                                   new_price, new_cost, cells)
                /\ last_op' = [ op |-> "update_product_details",
                                product_id |-> product_id, ret |-> ret,
                                shown |-> IF ret = "raised" THEN "error"
                                          ELSE "success" ]
    /\ UNCHANGED <<DB_TYPE, twin, transactions, product_seq, transaction_seq,
                   clock, run, issued>>

EditProductTab ==
    \E product_id \in issued, new_name \in EditNameInputs,
       new_min_quantity \in EditMinQuantityInputs,
       new_price \in EditPriceInputs, new_cost \in EditCostInputs,
       cells \in CellsDone :
        SubmitEditProduct(product_id, new_name, new_min_quantity, new_price,
                          new_cost, cells)

(* -------------------------------- reads ------------------------------- *)

\* what a read of the store can do: answer, or fail
ReadOutcomes == {"ok", "unavailable"}

\* a row put into rows that are in name order, behind the rows whose name
\* is not greater
InsertByName(sorted, row) ==
    LET k == Cardinality({ i \in 1 .. Len(sorted) :
                             ~ NameLess(row.name, sorted[i].name) })
    IN  SubSeq(sorted, 1, k) \o <<row>> \o SubSeq(sorted, k + 1, Len(sorted))

RECURSIVE SortByName(_)
SortByName(rows) ==
    IF rows = <<>> THEN <<>>
    ELSE InsertByName(SortByName(SubSeq(rows, 1, Len(rows) - 1)),
                      rows[Len(rows)])

\* operations.py:39-74: the products in name order; the sheets variant
\* answers a failed read with an empty frame, the sqlite variant raises
\* (the caller then gets no frame at all)
get_all_products(outcome) ==
    IF outcome = "ok" THEN SortByName(products) ELSE <<>>

get_all_products_ret(outcome) ==
    IF outcome = "ok" THEN "ok"
    ELSE IF DB_TYPE = sqlite THEN "raised" ELSE "swallowed"

\* operations.py:76-90: the rows a read by id can return.  sqlite: the row
\* of the primary key; sheets: the first row with the id in name order
get_product_by_id(product_id) ==
    IF DB_TYPE = sqlite THEN { FirstRowOf(products, product_id) } \ {0}
    ELSE SelectedRows(product_id)

\* Series.sum()
RECURSIVE SeriesSum(_)
SeriesSum(series) ==
    IF series = <<>> THEN 0 ELSE Head(series) + SeriesSum(Tail(series))

\* df['quantity'] * df['price'] and df['quantity']
StockValue(df) == [ i \in 1 .. Len(df) |-> df[i].quantity * df[i].price ]
StockItems(df) == [ i \in 1 .. Len(df) |-> df[i].quantity ]
IsLowStock(row) == row.quantity <= row.min_quantity

\* operations.py:152-169 with the low-stock test as quantity < min_quantity
get_inventory_stats_below_only(outcome) ==
    LET df == get_all_products(outcome)
        Below(row) == row.quantity < row.min_quantity
    IN  IF df = <<>>
        THEN [ total_products |-> 0, total_value |-> 0, total_items |-> 0,
               low_stock_count |-> 0 ]
        ELSE [ total_products |-> Len(df),
               total_value |-> SeriesSum(StockValue(df)),
               total_items |-> SeriesSum(StockItems(df)),
               low_stock_count |-> Len(SelectSeq(df, Below)) ]

\* operations.py:152-169
get_inventory_stats(outcome) ==
    LET df == get_all_products(outcome)
    IN  IF df = <<>>
        THEN [ total_products |-> 0, total_value |-> 0, total_items |-> 0,
               low_stock_count |-> 0 ]
        ELSE [ total_products |-> Len(df),
               total_value |-> SeriesSum(StockValue(df)),
               total_items |-> SeriesSum(StockItems(df)),
               low_stock_count |-> Len(SelectSeq(df, IsLowStock)) ]

\* view_products.py:23-40 with a read that writes the coerced columns back:
\* every min_quantity becomes the default of operations.py:48
ViewProductsStats_writes_back(outcome) ==
    /\ last_op' = [ op |-> "get_inventory_stats", product_id |-> 0,
                    ret |-> get_all_products_ret(outcome),
                    shown |-> "stats",
                    stats |-> get_inventory_stats(outcome) ]
    /\ products' = [ i \in 1 .. Len(products) |->
                       [ products[i] EXCEPT !.min_quantity = 5 ] ]
    /\ UNCHANGED <<DB_TYPE, twin, transactions, product_seq, transaction_seq,
                   clock, run, issued>>

\* view_products.py:23-40: the products page reads the statistics and
\* shows the four values
ViewProductsStats(outcome) ==
    /\ last_op' = IF get_all_products_ret(outcome) = "raised"
                  THEN [ op |-> "get_inventory_stats", product_id |-> 0,
                         ret |-> "raised", shown |-> "error" ]
                  ELSE [ op |-> "get_inventory_stats", product_id |-> 0,
                         ret |-> get_all_products_ret(outcome),
                         shown |-> "stats",
                         stats |-> get_inventory_stats(outcome) ]
    /\ UNCHANGED <<DB_TYPE, twin, products, transactions, product_seq,
                   transaction_seq, clock, run, issued>>

ViewProductsPage == \E outcome \in ReadOutcomes : ViewProductsStats(outcome)

\* operations.py:145-150 with the test as quantity < min_quantity
get_low_stock_products_below_only(outcome) ==
    LET Below(row) == row.quantity < row.min_quantity
    IN  SelectSeq(get_all_products(outcome), Below)

\* operations.py:145-150: the rows of get_all_products with
\* quantity <= min_quantity, in the order of that frame
get_low_stock_products(outcome) ==
    SelectSeq(get_all_products(outcome), IsLowStock)

\* view_products.py:42-56: the products page reads the low-stock products
\* and shows the alert when there are any
ViewProductsLowStock(outcome) ==
    /\ last_op' = IF get_all_products_ret(outcome) = "raised"
                  THEN [ op |-> "get_low_stock_products", product_id |-> 0,
                         ret |-> "raised", shown |-> "error" ]
                  ELSE [ op |-> "get_low_stock_products", product_id |-> 0,
                         ret |-> get_all_products_ret(outcome),
                         shown |-> IF get_low_stock_products(outcome) # <<>>
                                   THEN "warning" ELSE "none",
                         rows |-> get_low_stock_products(outcome) ]
    /\ UNCHANGED <<DB_TYPE, twin, products, transactions, product_seq,
                   transaction_seq, clock, run, issued>>

ViewProductsAlerts ==
    \E outcome \in ReadOutcomes : ViewProductsLowStock(outcome)

(* ------------------------ one session at a time ---------------------- *)

\* a stock-page run that starts when no other run is between its writes
StockPageSubmitAlone == InFlight = {} /\ StockPageSubmit

\* adds, movements and detail edits while the clock runs
NextDetails ==
    \/ Tick
    \/ AddProductPage
    \/ EditProductTab
    \/ StockPageSubmitAlone
    \/ StockPageUpdateStockOk
    \/ StockPageAddTransactionOk

SpecDetails == Init /\ [][NextDetails]_vars

\* every page of the app, within one second
NextPages ==
    \/ AddProductPage
    \/ EditProductTab
    \/ StockPageSubmitAlone
    \/ StockPageUpdateStockOk
    \/ StockPageAddTransactionOk
    \/ DeleteProductPageOk
    \/ ViewProductsPage

SpecPages == Init /\ [][NextPages]_vars

(* --------------------- validate_product_data alone -------------------- *)

\* longest name given to validate_product_data
MaxNameLen == 3

\* largest magnitude of a number given to validate_product_data
MaxMagnitude == 1

RECURSIVE NamesUpTo(_)
NamesUpTo(n) ==
    IF n = 0 THEN { <<>> }
    ELSE NamesUpTo(n - 1)
         \cup { Append(s, c) : s \in NamesUpTo(n - 1), c \in {" ", "a"} }

\* an argument that may be left at its default None
Optional(values) == { None } \cup { Some(v) : v \in values }

ValidateNumbers == (0 - MaxMagnitude) .. MaxMagnitude

\* the arguments of one call of validate_product_data
InitValidate ==
    /\ DB_TYPE \in {sqlite, sheets}
    /\ products = <<>>
    /\ transactions = <<>>
    /\ product_seq = 0
    /\ transaction_seq = 0
    /\ clock = 0
    /\ run = [ s \in Sessions |-> NoRun ]
    /\ issued = {}
    /\ twin = NoTwin
    /\ \E name \in NamesUpTo(MaxNameLen),
          price \in Optional(ValidateNumbers),
          quantity \in Optional(ValidateNumbers),
          min_quantity \in Optional(ValidateNumbers),
          cost \in Optional(ValidateNumbers) :
           last_op = [ op |-> "arguments", name |-> name, price |-> price,
                       quantity |-> quantity, min_quantity |-> min_quantity,
                       cost |-> cost, ret |-> <<>> ]

\* the call returns its list of errors
ValidateProductData ==
    /\ last_op.op = "arguments"
    /\ last_op' = [ last_op EXCEPT
                      !.op = "validate_product_data",
                      !.ret = validate_product_data(last_op.name,
                                  last_op.price, last_op.quantity,
                                  last_op.min_quantity, last_op.cost) ]
    /\ UNCHANGED <<DB_TYPE, twin, products, transactions, product_seq,
                   transaction_seq, clock, run, issued>>

NextValidate == ValidateProductData

SpecValidate == InitValidate /\ [][NextValidate]_vars

\* the products page with its low-stock alert, within one second
NextAlerts ==
    \/ AddProductPage
    \/ EditProductTab
    \/ StockPageSubmitAlone
    \/ StockPageUpdateStockOk
    \/ StockPageAddTransactionOk
    \/ DeleteProductPageOk
    \/ ViewProductsAlerts

SpecAlerts == Init /\ [][NextAlerts]_vars

(* ------------------ callers other than the stock form ----------------- *)

\* the units a caller can pass when no widget holds them at 1 or more:
\* update_product_stock and add_transaction take any integer
UnitsOfAnyCaller == (0 - MaxUnits) .. MaxUnits

\* update_stock.py:106-121 entered with units that did not come through
\* the number_input of lines 79-85
StockCallerSubmit ==
    /\ InFlight = {}
    /\ \E s \in Sessions, i \in 1 .. Len(products),
          transaction_type \in TransactionTypeOptions,
          quantity_change \in UnitsOfAnyCaller :
           /\ new_quantity(transaction_type, products[i].quantity,
                           quantity_change) >= 0 - MaxQuantity
           /\ SubmitStockForm(s, i, transaction_type, quantity_change)

NextCallers ==
    \/ AddProductPage
    \/ StockCallerSubmit
    \/ StockPageUpdateStockOk
    \/ StockPageAddTransactionOk
    \/ DeleteProductPageOk

SpecCallers == Init /\ [][NextCallers]_vars

(* ---------------------- the two variants side by side ----------------- *)

\* operations.py:7-37 on the store st of variant v
add_product_in(v, st, name, quantity, min_quantity, price, cost) ==
    LET next_id == IF v = sqlite THEN st.product_seq + 1
                   ELSE Len(st.products) + 1
    IN  [ store |-> [ st EXCEPT
                        !.products = Append(@,
                            [ product_id       |-> next_id,
                              name             |-> name,
                              quantity         |-> quantity,
                              min_quantity     |-> min_quantity,
                              price            |-> price,
                              cost             |-> cost,
                              created_date     |-> clock,
                              last_updated     |-> clock,
                              initial_quantity |-> quantity ]),
                        !.product_seq = IF v = sqlite THEN @ + 1 ELSE @ ],
          ret |-> ReturnsInt(next_id) ]

\* the rows a WHERE product_id = ? reaches in sqlite, and the row the scan
\* of the sheet stops at in sheets
RowsHit(v, rows, product_id) ==
    IF v = sqlite THEN RowsOf(rows, product_id)
    ELSE { FirstRowOf(rows, product_id) } \ {0}

\* operations.py:171-204 on the store st of variant v
update_product_stock_in(v, st, product_id, quantity) ==
    [ store |-> [ st EXCEPT
                    !.products = [ i \in 1 .. Len(@) |->
                        IF i \in RowsHit(v, @, product_id)
                        THEN [ @[i] EXCEPT !.quantity = quantity,
                                           !.last_updated = clock ]
                        ELSE @[i] ] ],
      ret |-> ReturnsBool(RowsOf(st.products, product_id) # {}) ]

\* operations.py:206-246 on the store st of variant v
add_transaction_in(v, st, product_id, transaction_type, quantity_change) ==
    LET next_id == IF v = sqlite THEN st.transaction_seq + 1
                   ELSE Len(st.transactions) + 1
    IN  [ store |-> [ st EXCEPT
                        !.transactions = Append(@,
                            [ transaction_id   |-> next_id,
                              product_id       |-> product_id,
                              transaction_type |-> transaction_type,
                              quantity_change  |-> quantity_change,
                              timestamp        |-> clock ]),
                        !.transaction_seq = IF v = sqlite THEN @ + 1 ELSE @ ],
          ret |-> ReturnsInt(next_id) ]

\* operations.py:248-284 on the store st of variant v
update_product_details_in(v, st, product_id, name, min_quantity, price, cost) ==
    [ store |-> [ st EXCEPT
                    !.products = [ i \in 1 .. Len(@) |->
                        IF i \in RowsHit(v, @, product_id)
                        THEN [ @[i] EXCEPT !.name = name,
                                           !.min_quantity = min_quantity,
                                           !.price = price,
                                           !.cost = cost,
                                           !.last_updated = clock ]
                        ELSE @[i] ] ],
      ret |-> ReturnsBool(RowsOf(st.products, product_id) # {}) ]

\* operations.py:92-136 on the store st of variant v: sqlite deletes the
\* transactions and the products with the id; sheets deletes the first
\* product row with the id and, only when it found one, the transactions
delete_product_in(v, st, product_id) ==
    LET found == RowsOf(st.products, product_id) # {}
    IN  [ store |-> [ st EXCEPT
                        !.products =
                            DeleteRows(@, RowsHit(v, @, product_id)),
                        !.transactions =
                            IF v = sheets /\ ~ found THEN @
                            ELSE DeleteRows(@, RowsOf(@, product_id)) ],
          ret |-> ReturnsBool(found) ]

\* both variants have room for another product / transaction row
TwinRoomForProduct ==
    \A v \in {sqlite, sheets} :
        /\ Len(twin.store[v].products) < MaxProducts
        /\ twin.store[v].product_seq < MaxProductSeq

TwinRoomForTransaction ==
    \A v \in {sqlite, sheets} :
        /\ Len(twin.store[v].transactions) < MaxTransactions
        /\ twin.store[v].transaction_seq < MaxTransactionSeq

\* the arguments the calls are given
TwinProductIds == 1 .. MaxProductSeq
TwinQuantities == 0 .. MaxUnits

\* the two results of one call, as the stores and return values by variant
OnBoth(in_sqlite, in_sheets) ==
    [ store |-> [ sqlite |-> in_sqlite.store, sheets |-> in_sheets.store ],
      ret   |-> [ sqlite |-> in_sqlite.ret,   sheets |-> in_sheets.ret ] ]

\* the same call is made on the store of each variant
TwinAddProduct ==
    /\ TwinRoomForProduct
    /\ \E quantity \in QuantityInputs :
          twin' = OnBoth(add_product_in(sqlite, twin.store[sqlite], <<"a", "b">>, quantity, 1, 250, 0),
                       add_product_in(sheets, twin.store[sheets], <<"a", "b">>, quantity, 1, 250, 0))
    /\ UNCHANGED <<DB_TYPE, products, transactions, product_seq,
                   transaction_seq, clock, run, issued, last_op>>

TwinUpdateProductStock ==
    /\ \E product_id \in TwinProductIds, quantity \in TwinQuantities :
          twin' = OnBoth(update_product_stock_in(sqlite, twin.store[sqlite], product_id, quantity),
                       update_product_stock_in(sheets, twin.store[sheets], product_id, quantity))
    /\ UNCHANGED <<DB_TYPE, products, transactions, product_seq,
                   transaction_seq, clock, run, issued, last_op>>

TwinAddTransaction ==
    /\ TwinRoomForTransaction
    /\ \E product_id \in TwinProductIds :
          twin' = OnBoth(add_transaction_in(sqlite, twin.store[sqlite], product_id, "STOKU ARTIR", 1),
                       add_transaction_in(sheets, twin.store[sheets], product_id, "STOKU ARTIR", 1))
    /\ UNCHANGED <<DB_TYPE, products, transactions, product_seq,
                   transaction_seq, clock, run, issued, last_op>>

TwinUpdateProductDetails ==
    /\ \E product_id \in TwinProductIds :
          twin' = OnBoth(update_product_details_in(sqlite, twin.store[sqlite], product_id, <<"a">>, 0, 100, 50),
                       update_product_details_in(sheets, twin.store[sheets], product_id, <<"a">>, 0, 100, 50))
    /\ UNCHANGED <<DB_TYPE, products, transactions, product_seq,
                   transaction_seq, clock, run, issued, last_op>>

TwinDeleteProduct ==
    /\ \E product_id \in TwinProductIds :
          twin' = OnBoth(delete_product_in(sqlite, twin.store[sqlite], product_id),
                       delete_product_in(sheets, twin.store[sheets], product_id))
    /\ UNCHANGED <<DB_TYPE, products, transactions, product_seq,
                   transaction_seq, clock, run, issued, last_op>>

NextTwin ==
    \/ TwinAddProduct
    \/ TwinUpdateProductStock
    \/ TwinAddTransaction
    \/ TwinUpdateProductDetails
    \/ TwinDeleteProduct

SpecTwin == Init /\ [][NextTwin]_vars

(* ----------------------------- properties ----------------------------- *)

TypeOK ==
    /\ DB_TYPE \in {sqlite, sheets}
    /\ Len(products) <= MaxProducts
    /\ Len(transactions) <= MaxTransactions
    /\ clock \in 0 .. MaxClock
    /\ \A s \in Sessions : run[s].pc \in {"idle", "submitted", "stock_written"}

\* the movement the user chose, whatever the label of the option
IsSale(transaction_type) == transaction_type \in {"SALE", "SATIS"}
IsRestock(transaction_type) == transaction_type \in {"RESTOCK", "STOKU ARTIR"}

\* sum of quantity_change over the rows of a transactions table for a product
RECURSIVE SumChanges(_, _)
SumChanges(rows, product_id) ==
    IF rows = <<>> THEN 0
    ELSE (IF Head(rows).product_id = product_id
          THEN Head(rows).quantity_change ELSE 0)
         + SumChanges(Tail(rows), product_id)

\* this step is run s's call of update_product_stock, and it returned True
StockWritten(s) ==
    /\ run[s].pc = "submitted"
    /\ run'[s].pc = "stock_written"
    /\ last_op'.op = "update_product_stock"
    /\ last_op'.ret = "True"

\* this step is run s's call of add_transaction, which ends the run
MovementEnds(s) ==
    /\ run[s].pc = "stock_written"
    /\ run'[s].pc = "idle"

\* C1: every stored product has quantity >= 0 in every reachable state; no
\* movement the user entered as a sale takes a quantity below zero.
C1_QuantityNonNegative ==
    \A i \in 1 .. Len(products) : products[i].quantity >= 0

\* a sale has gone through both store calls and its product is still stored
C1_Witness ==
    /\ last_op.op = "add_transaction"
    /\ last_op.ret = "id"
    /\ \E t \in 1 .. Len(transactions) :
          /\ IsSale(transactions[t].transaction_type)
          /\ transactions[t].product_id = last_op.product_id
          /\ RowsOf(products, transactions[t].product_id) # {}

\* C2: when no store call has failed and no movement is between its two
\* store calls, every stored product's quantity is its quantity at creation
\* plus the sum of quantity_change over its stored transactions.
C2_Reconciliation ==
    InFlight = {} =>
        \A i \in 1 .. Len(products) :
            products[i].initial_quantity
                + SumChanges(transactions, products[i].product_id)
              = products[i].quantity

\* C3: a stock movement is one unit of work: a run that has called
\* update_product_stock ends only with its transaction stored, so no failed
\* movement leaves the quantity changed without the transaction.
C3_MovementIsOneUnit ==
    [][ \A s \in Sessions :
          MovementEnds(s) => Len(transactions') = Len(transactions) + 1 ]_vars

\* C4: a sale of more units than the product's current quantity is rejected:
\* no run gets past the guard of the submit handler with such a sale.
C4_OversaleRejected ==
    \A s \in Sessions :
        run[s].pc # "idle" =>
            ~ ( /\ IsSale(run[s].transaction_type)
                /\ run[s].quantity_change > run[s].current_stock )

\* C5: an accepted movement of units on a product with current quantity q
\* stores q - units for a sale and q + units for a restock.
C5_NewQuantity ==
    [][ \A s \in Sessions :
          StockWritten(s) =>
              \E i \in RowsOf(products', run[s].product_id) :
                  products'[i].quantity =
                      IF IsSale(run[s].transaction_type)
                      THEN run[s].current_stock - run[s].quantity_change
                      ELSE run[s].current_stock + run[s].quantity_change ]_vars

\* C6: every transaction a movement stores is of type SALE or RESTOCK, with
\* quantity_change = -units for a sale and +units for a restock.
C6_SignedChange ==
    [][ \A s \in Sessions :
          (MovementEnds(s) /\ Len(transactions') = Len(transactions) + 1) =>
              LET t == transactions'[Len(transactions')]
              IN  /\ IsSale(t.transaction_type) \/ IsRestock(t.transaction_type)
                  /\ IsSale(t.transaction_type) =>
                         t.quantity_change = 0 - run[s].quantity_change
                  /\ IsRestock(t.transaction_type) =>
                         t.quantity_change = run[s].quantity_change ]_vars

\* C7: a sale of exactly the product's current quantity is accepted, leaves
\* the quantity at 0 and stores quantity_change = -units.
C7_SaleOfAllStock ==
    [][ \A s \in Sessions :
          ( /\ StockWritten(s)
            /\ IsSale(run[s].transaction_type)
            /\ run[s].quantity_change = run[s].current_stock ) =>
              /\ \E i \in RowsOf(products', run[s].product_id) :
                     products'[i].quantity = 0
              /\ run[s].quantity_change_db = 0 - run[s].quantity_change ]_vars

\* C8: movements on one product are serialised: the quantity a run checked
\* and computed with is the product's quantity in the store when it writes.
C8_WritesUseLiveQuantity ==
    [][ \A s \in Sessions :
          StockWritten(s) =>
              \A i \in RowsOf(products, run[s].product_id) :
                  products[i].quantity = run[s].current_stock ]_vars

\* C9: a movement on a product_id that is not in the store when it executes
\* ends as not found and stores no transaction.
C9_MissingProductNotFound ==
    [][ \A s \in Sessions :
          (MovementEnds(s) /\ RowsOf(products, run[s].product_id) = {}) =>
              /\ transactions' = transactions
              /\ last_op'.shown # "success" ]_vars

\* C10: after delete_product(id) returned success, no product and no
\* transaction with that id is in the store, in either variant.
C10_CascadeDelete ==
    (last_op.op = "delete_product" /\ last_op.ret = "True") =>
        /\ RowsOf(products, last_op.product_id) = {}
        /\ RowsOf(transactions, last_op.product_id) = {}

\* C11: every stored transaction carries the product_id of a product that is
\* in the store, after any interleaving of adds, movements and deletes.
C11_NoOrphanTransactions ==
    \A t \in 1 .. Len(transactions) :
        RowsOf(products, transactions[t].product_id) # {}

\* C12: no two stored products share a product_id.
C12_UniqueProductId ==
    \A i, j \in 1 .. Len(products) :
        products[i].product_id = products[j].product_id => i = j

\* C13: update_product_details changes only name, min_quantity, price, cost
\* and last_updated of the product it addresses: the quantity and the
\* created_date of that product, every other product and all transactions
\* are as they were before the call.
C13_DetailsFrame ==
    [][ last_op'.op = "update_product_details" =>
          /\ transactions' = transactions
          /\ Len(products') = Len(products)
          /\ \A i \in 1 .. Len(products) :
                 /\ \A f \in DOMAIN products[i] \ Range(DetailCells) :
                        products'[i][f] = products[i][f]
                 /\ products[i].product_id # last_op'.product_id =>
                        products'[i] = products[i] ]_vars

C13_Witness ==
    /\ last_op.op = "update_product_details"
    /\ last_op.ret = "True"
    /\ Len(products) = 2
    /\ transactions # <<>>
    /\ \E i \in RowsOf(products, last_op.product_id) :
           /\ products[i].name = <<"a">>
           /\ products[i].last_updated > products[i].created_date

\* C14: update_product_details on a product_id that is not in the store
\* returns False and changes nothing, and the edit tab does not report
\* success for it.
C14_MissingDetailsNotFound ==
    [][ ( /\ last_op'.op = "update_product_details"
          /\ RowsOf(products, last_op'.product_id) = {} ) =>
            /\ products' = products
            /\ transactions' = transactions
            /\ last_op'.ret \in {"False", "raised"}
            /\ last_op'.shown # "success" ]_vars

\* C15: right after add_product returned an id, a read by that id returns
\* the row that was just stored (same name, quantity, min_quantity, price
\* and cost) with created_date equal to last_updated.
C15_AddThenRead ==
    (last_op.op = "add_product" /\ last_op.ret = "id") =>
        /\ get_product_by_id(last_op.product_id) # {}
        /\ \A i \in get_product_by_id(last_op.product_id) :
               /\ products[i] = products[Len(products)]
               /\ products[i].created_date = products[i].last_updated

\* a field of a call of validate_product_data breaks its constraint
NameViolated == Len(strip(last_op.name)) < 2
PriceViolated == last_op.price = None \/ \E v \in last_op.price : v <= 0
QuantityViolated == \E v \in last_op.quantity : v < 0
MinQuantityViolated == \E v \in last_op.min_quantity : v < 0
CostViolated == \E v \in last_op.cost : v < 0

\* C16: validate_product_data returns the empty list exactly when the
\* trimmed name has at least 2 characters, the price is given and above 0,
\* and each of quantity, min_quantity and cost that is given is at least 0.
C16_ValidIffNoErrors ==
    last_op.op = "validate_product_data" =>
        ( last_op.ret = <<>> <=>
            ~ ( NameViolated \/ PriceViolated \/ QuantityViolated
                \/ MinQuantityViolated \/ CostViolated ) )

C16_Witness ==
    /\ last_op.op = "validate_product_data"
    /\ last_op.ret = <<>>
    /\ last_op.name = <<" ", "a", "a">>
    /\ last_op.quantity = None
    /\ last_op.cost = Some(0)

\* how many of the returned errors are among the given messages
ErrorsAmong(messages) ==
    Cardinality({ k \in 1 .. Len(last_op.ret) : last_op.ret[k] \in messages })

\* C17: validate_product_data returns exactly one error for every field
\* among name, price, quantity, min_quantity and cost whose constraint is
\* violated, and no other error.
C17_OneErrorPerViolatedField ==
    last_op.op = "validate_product_data" =>
        /\ ErrorsAmong({"name required", "name needs 2 characters"})
             = IF NameViolated THEN 1 ELSE 0
        /\ ErrorsAmong({"price must be above 0"})
             = IF PriceViolated THEN 1 ELSE 0
        /\ ErrorsAmong({"quantity is negative"})
             = IF QuantityViolated THEN 1 ELSE 0
        /\ ErrorsAmong({"min_quantity is negative"})
             = IF MinQuantityViolated THEN 1 ELSE 0
        /\ ErrorsAmong({"cost is negative"})
             = IF CostViolated THEN 1 ELSE 0
        /\ ErrorsAmong({"name required", "name needs 2 characters",
                        "price must be above 0", "quantity is negative",
                        "min_quantity is negative", "cost is negative"})
             = Len(last_op.ret)

C17_Witness ==
    /\ last_op.op = "validate_product_data"
    /\ Len(last_op.ret) = 5
    /\ last_op.name = <<"a", " ">>

\* C18: every stored product passes validate_product_data, whether the add
\* page or the edit tab wrote it.
C18_StoredProductsValid ==
    \A i \in 1 .. Len(products) :
        validate_product_data(products[i].name, Some(products[i].price),
                              Some(products[i].quantity),
                              Some(products[i].min_quantity),
                              Some(products[i].cost)) = <<>>

\* the sum of one number per stored product
TotalOver(values) ==
    LET total[n \in 0 .. Len(products)] ==
            IF n = 0 THEN 0 ELSE total[n - 1] + values[n]
    IN  total[Len(products)]

MovementStep(s) == run[s].pc # "idle" /\ run'[s] # run[s]

\* C21: a stock movement whose units are zero or negative is rejected: it
\* changes no product, stores no transaction and is not reported as a
\* success, whoever the caller is.
C21_InvalidUnitsRejected ==
    [][ \A s \in Sessions :
          (MovementStep(s) /\ run[s].quantity_change <= 0) =>
              /\ products' = products
              /\ transactions' = transactions
              /\ last_op'.shown # "success" ]_vars

\* C22: delete_product removes the transactions of the product before the
\* product, in both variants: no call of it, completed or failed part-way,
\* removes a product and leaves a transaction of that product behind.
C22_TransactionsDeletedFirst ==
    [][ ( /\ last_op'.op = "delete_product"
          /\ RowsOf(products, last_op'.product_id) # {}
          /\ RowsOf(products', last_op'.product_id) = {} ) =>
            RowsOf(transactions', last_op'.product_id) = {} ]_vars

\* C23: the ledger is append-only: the transactions of a product that is
\* still stored stay in the store with all their fields, and the table
\* changes only by add_transaction and by the cascade of delete_product.
C23_LedgerAppendOnly ==
    [][ /\ \A t \in 1 .. Len(transactions) :
              RowsOf(products', transactions[t].product_id) # {} =>
                  \E u \in 1 .. Len(transactions') :
                      transactions'[u] = transactions[t]
        /\ transactions' # transactions =>
              last_op'.op \in {"add_transaction", "delete_product"} ]_vars

\* C24: created_date is write-once: no stock movement and no detail update
\* changes the created_date of a stored product.
C24_CreatedDateWriteOnce ==
    [][ \A i \in 1 .. Len(products) :
          i <= Len(products') =>
              products'[i].created_date = products[i].created_date ]_vars

\* a product that was created, then moved and edited in a later second
C24_Witness ==
    \E i \in 1 .. Len(products) :
        /\ products[i].quantity > products[i].initial_quantity
        /\ products[i].name = <<"a">>
        /\ products[i].last_updated > products[i].created_date

\* C25: quantity and last_updated change together: a step that gives a
\* stored product a new quantity also sets its last_updated to the current
\* time, also when a store call fails between two of its writes.
C25_QuantityWithLastUpdated ==
    [][ Len(products') = Len(products) =>
          \A i \in 1 .. Len(products) :
              products'[i].quantity # products[i].quantity =>
                  products'[i].last_updated = clock ]_vars

\* C26: no two stored transactions share a transaction_id, after any
\* sequence of movements and cascading deletes, in both variants.
C26_UniqueTransactionId ==
    \A t, u \in 1 .. Len(transactions) :
        transactions[t].transaction_id = transactions[u].transaction_id =>
            t = u

\* C27: the product_id add_product returns was never returned before, not
\* even for a product that has been deleted since.
C27_ProductIdNeverReused ==
    [][ ( /\ last_op'.op = "add_product"
          /\ last_op'.ret = "id"
          /\ Len(products') > Len(products) ) =>
            last_op'.product_id \notin issued ]_vars

\* the stored products with quantity <= min_quantity
LowStockRows ==
    { i \in 1 .. Len(products) :
        products[i].quantity <= products[i].min_quantity }

C29_SuccessOnlyAfterWrite ==
    [][ ( /\ last_op' # last_op
          /\ last_op'.op \in {"update_product_details", "add_transaction"}
          /\ last_op'.shown = "success" ) =>
            last_op'.ret \in {"True", "id"} ]_vars

\* C30: the sqlite branch and the sheets branch are observationally
\* equivalent: given the same calls they return the same values and hold
\* the same products and transactions.
C30_VariantsEquivalent ==
    /\ twin.ret[sqlite] = twin.ret[sheets]
    /\ Range(twin.store[sqlite].products) = Range(twin.store[sheets].products)
    /\ Range(twin.store[sqlite].transactions)
         = Range(twin.store[sheets].transactions)

====
